---- MODULE Spec2Model ----
(***************************************************************************)
(* Train/eval driver for DQN on Atari                                      *)
(* (tf_agents/agents/dqn/examples/train_eval_atari.py, class TrainEval).   *)
(*                                                                         *)
(* The model follows TrainEval.run: _initialize_graph, _initial_collect,   *)
(* then num_iterations cycles of a train phase and an eval phase, each a   *)
(* sequence of _run_episode calls, each of those a loop of _collect_step   *)
(* calls followed by the game-over test and the optional train step.       *)
(*                                                                         *)
(* The three checkpointers keep their latest checkpoint in train_dir; a    *)
(* process may stop at a cycle boundary and a new one, started on the same *)
(* train_dir, restores the train and replay buffer checkpoints.            *)
(*                                                                         *)
(* The environment is the external collaborator: a step returns a MID or   *)
(* LAST time step with a reward and sets the out-of-band game_over flag.   *)
(* Observations and actions are opaque and are left out of the records.    *)
(* Discounts 0.0 and 1.0 are written 0 and 1.                              *)
(***************************************************************************)
EXTENDS Integers, Sequences, FiniteSets, TLC

(* ---- program constant ------------------------------------------------- *)
ATARI_FRAME_SKIP == 4

(* ---- bounds of the model (agent steps, i.e. ALE frames / 4) ----------- *)
NumIterations == 2
InitialCollectAgentSteps == 1
TrainAgentSteps == 2
EvalAgentSteps == 1
UpdatePeriodAgentSteps == 2
Capacity == 2
MaxEpisodeLen == 3
MaxReward == 2
MaxRestarts == 1
MaxEnvSteps == 6
EpsilonDecayAgentSteps == 4

VARIABLES
  pc,                \* position in TrainEval.run
  do_eval,           \* self._do_eval
  config,            \* the constructor arguments the model varies
  time_step,         \* the local time_step of _initial_collect / _run_episode
  game_over,         \* self._env.envs[0].game_over
  env_t,             \* environment steps since the last reset
  replay_buffer,     \* self._replay_buffer, oldest entry first
  train,             \* the train argument of the running _run_episode
  env_steps,         \* the local env_steps of run (steps of the phase)
  episode_steps,     \* the local env_steps of _run_episode
  env_steps_metric,  \* self._env_steps_metric.result()
  global_step,       \* self._global_step
  iteration,         \* self._iteration_metric.result()
  global_step_val,   \* the local global_step_val of run
  last,              \* what the latest _collect_step / _initial_collect
                     \* iteration did: env outcomes, writes, observer calls,
                     \* policies asked, events in order
  train_phase_metrics, \* self._train_phase_metrics: transitions observed
                     \* since the last reset
  eval_metrics,      \* self._eval_metrics: transitions observed since the
                     \* last reset
  logged,            \* the train phase metrics as last logged (line 381)
  callback_step,     \* the step last passed to self._eval_metrics_callback
  checkpoints,       \* the latest checkpoint of each of the three
                     \* checkpointers in train_dir
  process,           \* restarts: processes started on train_dir before
                     \* this one; cycles: cycles completed by this one
  at_stop,           \* the program state when the previous process stopped
  env_total,         \* environment steps taken so far, up to MaxEnvSteps
  life_losses        \* collect steps of the running _run_episode that took
                     \* the life-loss branch (lines 514-535)

vars == <<pc, do_eval, config, time_step, game_over, env_t, replay_buffer, train,
          env_steps, episode_steps, env_steps_metric, global_step, iteration,
          global_step_val, last, train_phase_metrics, eval_metrics, logged,
          callback_step, checkpoints, process, at_stop, env_total,
          life_losses>>

(* the configuration of the default specification *)
DefaultConfig ==
  [initial_collect_steps |-> InitialCollectAgentSteps * ATARI_FRAME_SKIP,
   update_period |-> UpdatePeriodAgentSteps * ATARI_FRAME_SKIP,
   replay_buffer_capacity |-> Capacity]

(* the configurations the model compares: the default one, one with an     *)
(* update at every agent step, one with that and no initial collect, and   *)
(* one with a Store of a single entry                                      *)
Configs ==
  {DefaultConfig,
   [DefaultConfig EXCEPT !.update_period = ATARI_FRAME_SKIP],
   [DefaultConfig EXCEPT !.update_period = ATARI_FRAME_SKIP,
                         !.initial_collect_steps = 0],
   [DefaultConfig EXCEPT !.replay_buffer_capacity = 1]}

(* ---- constructor arguments, in ALE frames as in __init__ -------------- *)
(* the arguments the model varies are the fields of config                 *)
num_iterations == NumIterations
initial_collect_steps == config.initial_collect_steps
train_steps_per_iteration == TrainAgentSteps * ATARI_FRAME_SKIP
eval_steps_per_iteration == EvalAgentSteps * ATARI_FRAME_SKIP
update_period == config.update_period
replay_buffer_capacity == config.replay_buffer_capacity
epsilon_decay_period == EpsilonDecayAgentSteps * ATARI_FRAME_SKIP
epsilon_greedy == 10          \* 0.01, in thousandths

(* ---- fields computed by __init__ (lines 190-198) ---------------------- *)
self_update_period == update_period \div ATARI_FRAME_SKIP
self_train_steps_per_iteration == train_steps_per_iteration \div ATARI_FRAME_SKIP
self_eval_steps_per_iteration == eval_steps_per_iteration \div ATARI_FRAME_SKIP
self_initial_collect_steps == initial_collect_steps \div ATARI_FRAME_SKIP

(* ---- rewards the environment can return: one below and one above the    *)
(* ---- clipping range [-1, 1] -------------------------------------------- *)
Rewards == {0 - MaxReward, MaxReward}

(* the variables a phase of run leaves alone *)
outputs == <<logged, callback_step>>
durable == <<checkpoints, process, at_stop>>


(* ======================================================================= *)
(* Time steps and trajectories (tf_agents.environments.time_step,          *)
(* tf_agents.environments.trajectory)                                      *)
(* ======================================================================= *)
ts_restart == [step_type |-> "FIRST", reward |-> 0, discount |-> 1]

ts_transition(reward) == [step_type |-> "MID", reward |-> reward, discount |-> 1]

ts_termination(reward) == [step_type |-> "LAST", reward |-> reward, discount |-> 0]

is_last(ts) == ts.step_type = "LAST"

from_transition(ts, policy, next_ts) ==
  [step_type |-> ts.step_type,
   policy |-> policy,
   next_step_type |-> next_ts.step_type,
   reward |-> next_ts.reward,
   discount |-> next_ts.discount]

(* np.clip(x, -1, 1) *)
np_clip(x) == IF x < 0 - 1 THEN 0 - 1 ELSE IF x > 1 THEN 1 ELSE x

(* ======================================================================= *)
(* Replay buffer: fixed capacity ring, oldest entry overwritten first      *)
(* ======================================================================= *)
add_batch(buffer, traj) ==
  IF Len(buffer) < replay_buffer_capacity
  THEN Append(buffer, traj)
  ELSE Append(Tail(buffer), traj)

rb_size(buffer) == Len(buffer)

(* ======================================================================= *)
(* Environment: outcomes of one step taken t steps after the last reset    *)
(* ======================================================================= *)
EnvStep(t) ==
  { [ts |-> ts_transition(r), game_over |-> FALSE] : r \in
        IF t + 1 < MaxEpisodeLen THEN Rewards ELSE {} }
  \cup { [ts |-> ts_termination(r), game_over |-> FALSE] : r \in
        IF t + 1 < MaxEpisodeLen THEN Rewards ELSE {} }
  \cup { [ts |-> ts_termination(r), game_over |-> TRUE] : r \in Rewards }

(* the environment model grants MaxEnvSteps steps with a free outcome over  *)
(* the whole run; every later step ends the game                           *)
EnvStepAt(t, n) ==
  IF n < MaxEnvSteps THEN EnvStep(t)
  ELSE {o \in EnvStep(t) : o.game_over}

Min(a, b) == IF a < b THEN a ELSE b

(* ======================================================================= *)
(* Exploration schedule (lines 239-243)                                    *)
(* ======================================================================= *)
(* tf.train.polynomial_decay with power 1 and cycle False:                 *)
(*   step = min(step, decay_steps)                                         *)
(*   (learning_rate - end) * (1 - step / decay_steps) + end                *)
(* for decay_steps = num / den; the result is in units of 1 / num          *)
polynomial_decay(learning_rate, step, num, den, end_learning_rate) ==
  (learning_rate - end_learning_rate) * (num - Min(step * den, num))
    + end_learning_rate * num

(* the unit of epsilon: thousandths, over the decay period in agent steps *)
EpsilonOne == 1000 * (epsilon_decay_period \div ATARI_FRAME_SKIP)

(* variant: the decay period is not divided by the update period *)
epsilon_per_agent_step(gs) ==
  polynomial_decay(1000, gs, epsilon_decay_period \div ATARI_FRAME_SKIP, 1,
                   epsilon_greedy)

(* lines 240-243: epsilon at global step gs, in units of 1 / EpsilonOne;   *)
(* decay_steps = epsilon_decay_period / ATARI_FRAME_SKIP /                 *)
(* self._update_period                                                     *)
epsilon(gs) ==
  polynomial_decay(1000, gs, epsilon_decay_period \div ATARI_FRAME_SKIP,
                   self_update_period, epsilon_greedy)

NoStep == [env |-> <<>>, written |-> <<>>, observed |-> <<>>,
           policies |-> <<>>, events |-> <<>>, resets |-> 0]

(* ======================================================================= *)
(* Checkpointers (lines 340-355): what each one is constructed with, and   *)
(* the latest checkpoint each one keeps in train_dir                       *)
(* ======================================================================= *)
NoCheckpoints == [train |-> <<>>, policy |-> <<>>, rb |-> <<>>]

(* lines 340-347: global_step and the metrics self._train_metrics +        *)
(* self._train_phase_metrics + [self._iteration_metric]                    *)
train_checkpoint(tag, gs, steps_metric, phase_metrics, it) ==
  [tag |-> tag, global_step |-> gs, env_steps_metric |-> steps_metric,
   train_phase_metrics |-> phase_metrics, iteration |-> it]

(* lines 348-351 *)
policy_checkpoint(tag, gs) == [tag |-> tag, global_step |-> gs]

(* lines 352-355 *)
rb_checkpoint(tag, buffer) == [tag |-> tag, replay_buffer |-> buffer]

(* Checkpointer.save: the new checkpoint becomes the latest of its group *)
save(ckpts, group, content) == [ckpts EXCEPT ![group] = <<content>>]

(* Checkpointer.initialize_or_restore: the latest checkpoint when there is *)
(* one, the freshly constructed values otherwise                           *)
initialize_or_restore(ckpts, group, fresh) ==
  IF ckpts[group] = <<>> THEN fresh ELSE ckpts[group][1]

(* the program state recorded when a process stops *)
NoStop == [global_step |-> 0, iteration |-> 0, env_steps_metric |-> 0,
           train_phase_metrics |-> 0, eval_metrics |-> 0, rb_size |-> 0]

TypeOK ==
  /\ pc \in {"start", "initial_collect", "initial_collect_loop", "loop_head",
             "train_loop", "eval_loop", "collect", "after_collect",
             "iteration_end", "save_train", "save_policy", "save_rb",
             "done"}
  /\ do_eval \in BOOLEAN
  /\ game_over \in BOOLEAN
  /\ train \in BOOLEAN
  /\ env_t \in 0..(MaxEpisodeLen + 1)
  /\ Len(replay_buffer) <= replay_buffer_capacity
  /\ iteration \in 0..num_iterations
  /\ global_step <= env_steps_metric
  /\ train_phase_metrics \in Nat
  /\ eval_metrics \in Nat
  /\ process.restarts \in 0..MaxRestarts
  /\ process.cycles \in 0..num_iterations
  /\ \A g \in {"train", "policy", "rb"} : Len(checkpoints[g]) <= 1
  /\ life_losses \in 0..env_t

(* the state __init__ leaves, on a fresh train_dir *)
Constructed ==
  /\ pc = "start"
  /\ do_eval \in BOOLEAN
  /\ time_step = ts_restart
  /\ game_over = FALSE
  /\ env_t = 0
  /\ replay_buffer = <<>>
  /\ train = FALSE
  /\ env_steps = 0
  /\ episode_steps = 0
  /\ env_steps_metric = 0
  /\ global_step = 0
  /\ iteration = 0
  /\ global_step_val = 0
  /\ last = NoStep
  /\ train_phase_metrics = 0
  /\ eval_metrics = 0
  /\ logged = 0
  /\ callback_step = 0 - 1
  /\ checkpoints = NoCheckpoints
  /\ process = [restarts |-> 0, cycles |-> 0]
  /\ at_stop = NoStop
  /\ env_total = 0
  /\ life_losses = 0

Init == config = DefaultConfig /\ Constructed

(* the same program under every configuration of Configs *)
InitConfigs == config \in Configs /\ Constructed

(* ======================================================================= *)
(* _collect_step, lines 492-539, as a function of the two environment      *)
(* outcomes it may consume (o2 is used on a life loss only)                *)
(* ======================================================================= *)
(* lines 500 and 514: next_time_step.is_last() and not self.game_over() *)
life_loss(next_ts, go) == is_last(next_ts) /\ ~go

(* lines 500-501 *)
override_discount(traj, next_ts, go) ==
  IF life_loss(next_ts, go) THEN [traj EXCEPT !.discount = 1] ELSE traj

(* _store_to_rb, lines 486-490: the trajectory handed to add_batch *)
store_to_rb(traj) == [traj EXCEPT !.reward = np_clip(traj.reward)]

(* variant: the train flag is not consulted *)
stored_always(train_flag, traj) == <<store_to_rb(traj)>>

(* lines 503-504 and 529-531: if train: self._store_to_rb(...) *)
stored(train_flag, traj) ==
  IF train_flag THEN <<store_to_rb(traj)>> ELSE <<>>

store_event(train_flag) == IF train_flag THEN <<"store">> ELSE <<>>

(* variant: the game-over test is not negated *)
life_loss_splice_on_game_over(next_ts, go) == is_last(next_ts) /\ go

(* line 514: the second evaluation of the life-loss condition *)
life_loss_splice(next_ts, go) == is_last(next_ts) /\ ~go

(* lines 516-519: the step just taken, re-expressed as ending in a MID step *)
as_mid_step(ts, policy, next_ts) ==
  from_transition(ts, policy, ts_transition(next_ts.reward))

(* variant: the reward read at line 523 ends up as the trajectory's reward *)
spliced_step_reattached(ts, policy, next2) ==
  [from_transition(ts_transition(ts.reward), policy, next2)
     EXCEPT !.reward = ts.reward]

(* lines 523-524 and 534-535: the trajectory observed for the extra step;  *)
(* reward is time_step.reward read at line 523, before the restart         *)
spliced_step(ts, policy, next2) ==
  LET reward == ts.reward                          \* 523
      first  == ts_restart                         \* 524
      mid    == ts_transition(reward)              \* 534
  IN from_transition(mid, policy, next2)           \* 535

(* variant: the time step is not restarted before the extra step *)
restart_step_not_restarted(policy, next2) ==
  from_transition(ts_transition(0), policy, next2)

(* lines 524-531: the trajectory of the extra step as the Store sees it *)
restart_step(policy, next2) == from_transition(ts_restart, policy, next2)

(* variant: the observers are called before the Store write *)
step_events_observe_first(train_flag) ==
  <<"action", "step", "observe">> \o store_event(train_flag)

(* the calls made for one environment step, in order: policy.action (494   *)
(* / 526), env.step (497 / 528), _store_to_rb (504 / 530), _observe (518   *)
(* or 537 / 537)                                                           *)
step_events(train_flag) ==
  <<"action", "step">> \o store_event(train_flag) \o <<"observe">>

(* lines 514-535: the life-loss branch *)
life_loss_branch(ts, policy, train_flag, o1, o2) ==
  [next_time_step |-> o2.ts,                                       \* 528
   game_over |-> o2.game_over,
   written |-> stored(train_flag, restart_step(policy, o2.ts)),    \* 529-531
   observed |-> <<as_mid_step(ts, policy, o1.ts),                  \* 518
                  spliced_step(ts, policy, o2.ts)>>,               \* 537
   policies |-> <<policy>>,                                        \* 526
   events |-> step_events(train_flag)]                     \* 525-537

collect_step(ts, policy, train_flag, o1, o2) ==
  LET next1 == o1.ts                                               \* 497
      traj  == override_discount(from_transition(ts, policy, next1),
                                 next1, o1.game_over)              \* 498-501
      w1    == stored(train_flag, traj)                            \* 503-504
      ev1   == step_events(train_flag)               \* 494-504, 518 / 537
  IN IF life_loss_splice(next1, o1.game_over)
     THEN LET b == life_loss_branch(ts, policy, train_flag, o1, o2)
          IN [next_time_step |-> b.next_time_step,
              game_over |-> b.game_over,
              env |-> <<o1, o2>>,
              written |-> w1 \o b.written,
              observed |-> b.observed,
              policies |-> <<policy>> \o b.policies,
              events |-> ev1 \o b.events,
              resets |-> 0]
     ELSE [next_time_step |-> next1,
           game_over |-> o1.game_over,
           env |-> <<o1>>,
           written |-> w1,
           observed |-> <<traj>>,                                  \* 537
           policies |-> <<policy>>,
           events |-> ev1,
           resets |-> 0]

(* the record kept in the variable last *)
StepLog(c) == [env |-> c.env, written |-> c.written, observed |-> c.observed,
               policies |-> c.policies, events |-> c.events,
               resets |-> c.resets]

RECURSIVE add_all(_, _)
add_all(buffer, trajs) ==
  IF trajs = <<>> THEN buffer
  ELSE add_all(add_batch(buffer, Head(trajs)), Tail(trajs))

(* py_metrics.EnvironmentSteps: counts the trajectories that are not a     *)
(* boundary (step_type LAST)                                               *)
RECURSIVE EnvironmentSteps(_, _)
EnvironmentSteps(count, trajs) ==
  IF trajs = <<>> THEN count
  ELSE EnvironmentSteps(
         IF Head(trajs).step_type = "LAST" THEN count ELSE count + 1,
         Tail(trajs))

(* line 465: the policy _run_episode hands to _collect_step *)
episode_policy(train_flag) == "collect"

(* lines 392-394 / 377-379: the observers of an episode include            *)
(* self._env_steps_metric in a train episode only                          *)
observes_env_steps(train_flag) == train_flag

(* variant: an eval episode is handed the observers of a train episode *)
metric_observers_always_train(train_flag) ==
  {"train_metrics", "train_phase_metrics"}

(* lines 378-379 and 393-394: the metric_observers argument of             *)
(* _run_episode                                                            *)
metric_observers(train_flag) ==
  IF train_flag THEN {"train_metrics", "train_phase_metrics"}
  ELSE {"eval_metrics"}

(* ======================================================================= *)
(* Actions                                                                 *)
(* ======================================================================= *)
(* variant: the replay buffer checkpointer is not restored *)
restored_groups_train_only == {"train"}

(* lines 412-413: the checkpointers _initialize_graph restores *)
restored_groups == {"train", "rb"}

(* run, lines 364-367: _initialize_graph, lines 410-438 *)
InitializeGraph ==
  /\ UNCHANGED <<env_total, life_losses>>
  /\ pc = "start"
  /\ LET t == IF "train" \in restored_groups                        \* 412
              THEN initialize_or_restore(checkpoints, "train",
                     train_checkpoint(0, global_step, env_steps_metric,
                                      train_phase_metrics, iteration))
              ELSE train_checkpoint(0, global_step, env_steps_metric,
                                    train_phase_metrics, iteration)
         b == IF "rb" \in restored_groups                           \* 413
              THEN initialize_or_restore(checkpoints, "rb",
                     rb_checkpoint(0, replay_buffer))
              ELSE rb_checkpoint(0, replay_buffer)
         val == t.global_step                                       \* 429
     IN /\ global_step' = t.global_step
        /\ env_steps_metric' = t.env_steps_metric
        /\ train_phase_metrics' = t.train_phase_metrics
        /\ iteration' = t.iteration
        /\ replay_buffer' = b.replay_buffer
        /\ checkpoints' =                                           \* 434-436
             save(save(save(checkpoints, "train",
                            train_checkpoint(val, t.global_step,
                              t.env_steps_metric, t.train_phase_metrics,
                              t.iteration)),
                       "policy", policy_checkpoint(val, t.global_step)),
                  "rb", rb_checkpoint(val, b.replay_buffer))
  /\ pc' = "initial_collect"
  /\ UNCHANGED <<config, do_eval, time_step, game_over, env_t, train,
                 env_steps, episode_steps, global_step_val, last,
                 eval_metrics, outputs, process, at_stop>>

(* _initial_collect, lines 442-446: time_step = self._env.reset() *)
InitialCollectReset ==
  /\ UNCHANGED <<env_total, life_losses>>
  /\ pc = "initial_collect"
  /\ pc' = "initial_collect_loop"
  /\ time_step' = ts_restart
  /\ game_over' = FALSE
  /\ env_t' = 0
  /\ last' = [NoStep EXCEPT !.resets = 1, !.events = <<"reset">>]
  /\ UNCHANGED <<config, do_eval, replay_buffer, train, env_steps,
                 episode_steps, env_steps_metric, global_step, iteration, global_step_val,
                 train_phase_metrics, eval_metrics, outputs, durable>>

(* line 448: if self.game_over() *)
initial_collect_resets(go) == go

(* variant: the loop goes on at the threshold *)
initial_collect_continues_inclusive(size) == size <= self_initial_collect_steps

(* variant: the comparison is inverted *)
initial_collect_continues_inverted(size) == size > self_initial_collect_steps

(* variant: the loop runs until the Store is full *)
initial_collect_fills(size) == size < replay_buffer_capacity

(* line 447: while self._replay_buffer.size < self._initial_collect_steps *)
initial_collect_continues(size) == size < self_initial_collect_steps

(* variant: off by one in the loop condition *)
run_continues_inclusive(it) == it <= num_iterations

(* line 372: while self._iteration_metric.result() < self._num_iterations *)
run_continues(it) == it < num_iterations

(* variant: off by one in the loop condition *)
train_phase_continues_inclusive(steps) ==
  steps <= self_train_steps_per_iteration

(* line 377: while env_steps < self._train_steps_per_iteration *)
train_phase_continues(steps) == steps < self_train_steps_per_iteration

(* line 392: while env_steps < self._eval_steps_per_iteration *)
eval_phase_continues(steps) == steps < self_eval_steps_per_iteration

(* variant: the episode ends on the time step's own terminal flag *)
episode_over_on_last(ts, go) == is_last(ts)

(* line 470: if self.game_over(): break *)
episode_over(ts, go) == go

(* _initial_collect, lines 447-454: one iteration of the while loop *)
InitialCollectStep ==
  /\ pc = "initial_collect_loop"
  /\ initial_collect_continues(rb_size(replay_buffer))
  /\ LET reset == initial_collect_resets(game_over)
         ts    == IF reset THEN ts_restart ELSE time_step
         t     == IF reset THEN 0 ELSE env_t
     IN \E o \in EnvStepAt(t, env_total) :
          LET traj == from_transition(ts, "random", o.ts)
          IN /\ replay_buffer' = add_batch(replay_buffer, traj)
             /\ time_step' = o.ts
             /\ game_over' = o.game_over
             /\ env_t' = t + 1
             /\ env_total' = Min(env_total + 1, MaxEnvSteps)
             /\ UNCHANGED life_losses
             /\ last' = [env |-> <<o>>, written |-> <<traj>>,
                         observed |-> <<>>, policies |-> <<"random">>,
                         events |-> (IF reset THEN <<"reset">> ELSE <<>>)
                                    \o <<"action", "step", "store">>,
                         resets |-> IF reset THEN 1 ELSE 0]
  /\ UNCHANGED <<pc, config, do_eval, train, env_steps, episode_steps,
                 env_steps_metric, global_step, iteration, global_step_val,
                 train_phase_metrics, eval_metrics, outputs, durable>>

(* _initial_collect, lines 447 and 455: the loop condition fails *)
InitialCollectDone ==
  /\ UNCHANGED <<env_total, life_losses>>
  /\ pc = "initial_collect_loop"
  /\ ~initial_collect_continues(rb_size(replay_buffer))
  /\ pc' = "loop_head"
  /\ time_step' = ts_restart
  /\ last' = NoStep
  /\ UNCHANGED <<config, do_eval, game_over, env_t, replay_buffer, train,
                 env_steps, episode_steps, env_steps_metric, global_step,
                 iteration, global_step_val,
                 train_phase_metrics, eval_metrics, outputs, durable>>

(* run, lines 372-376: a new cycle starts with the train phase *)
TrainPhaseBegin ==
  /\ UNCHANGED <<env_total, life_losses>>
  /\ pc = "loop_head"
  /\ run_continues(iteration)
  /\ env_steps' = 0
  /\ train_phase_metrics' = 0                            \* 375-376
  /\ pc' = "train_loop"
  /\ UNCHANGED <<config, do_eval, time_step, game_over, env_t, replay_buffer,
                 train, episode_steps, env_steps_metric, global_step, iteration,
                 global_step_val, last, eval_metrics, outputs, durable>>

(* run, line 372: the outer loop condition fails *)
RunDone ==
  /\ UNCHANGED <<env_total, life_losses>>
  /\ pc = "loop_head"
  /\ ~run_continues(iteration)
  /\ pc' = "done"
  /\ UNCHANGED <<config, do_eval, time_step, game_over, env_t, replay_buffer,
                 train, env_steps, episode_steps, env_steps_metric, global_step,
                 iteration, global_step_val, last,
                 train_phase_metrics, eval_metrics, outputs, durable>>

(* _run_episode, lines 459-460, entered from run *)
EpisodeBegin(train_flag) ==
  /\ train' = train_flag
  /\ episode_steps' = 0
  /\ life_losses' = 0
  /\ time_step' = ts_restart
  /\ game_over' = FALSE
  /\ env_t' = 0
  /\ last' = [NoStep EXCEPT !.resets = 1, !.events = <<"reset">>]
  /\ pc' = "collect"

(* run, lines 377-379 *)
TrainEpisodeBegin ==
  /\ UNCHANGED env_total
  /\ pc = "train_loop"
  /\ train_phase_continues(env_steps)
  /\ EpisodeBegin(TRUE)
  /\ UNCHANGED <<config, do_eval, replay_buffer, env_steps, env_steps_metric,
                 global_step, iteration, global_step_val,
                 train_phase_metrics, eval_metrics, outputs, durable>>

(* run, lines 380-391: end of the train phase, start of the eval phase *)
TrainPhaseEnd ==
  /\ UNCHANGED <<env_total, life_losses>>
  /\ pc = "train_loop"
  /\ ~train_phase_continues(env_steps)
  /\ logged' = train_phase_metrics                        \* 380-383
  /\ global_step_val' = global_step                        \* 385
  /\ IF do_eval
     THEN /\ env_steps' = 0
          /\ eval_metrics' = 0                              \* 390-391
          /\ pc' = "eval_loop"
     ELSE /\ UNCHANGED <<env_steps, eval_metrics>>
          /\ pc' = "iteration_end"
  /\ UNCHANGED <<config, do_eval, time_step, game_over, env_t, replay_buffer,
                 train, episode_steps, env_steps_metric, global_step, iteration,
                 last, train_phase_metrics, callback_step, durable>>

(* run, lines 392-394 *)
EvalEpisodeBegin ==
  /\ UNCHANGED env_total
  /\ pc = "eval_loop"
  /\ eval_phase_continues(env_steps)
  /\ EpisodeBegin(FALSE)
  /\ UNCHANGED <<config, do_eval, replay_buffer, env_steps, env_steps_metric,
                 global_step, iteration, global_step_val,
                 train_phase_metrics, eval_metrics, outputs, durable>>

(* run, lines 396-402 *)
EvalPhaseEnd ==
  /\ UNCHANGED <<env_total, life_losses>>
  /\ pc = "eval_loop"
  /\ ~eval_phase_continues(env_steps)
  /\ callback_step' = global_step_val                      \* 397-400
  /\ pc' = "iteration_end"
  /\ UNCHANGED <<config, do_eval, time_step, game_over, env_t, replay_buffer,
                 train, env_steps, episode_steps, env_steps_metric, global_step,
                 iteration, global_step_val, last, train_phase_metrics,
                 eval_metrics, logged, durable>>

(* run, line 404: self._iteration_metric() *)
IterationEnd ==
  /\ UNCHANGED <<env_total, life_losses>>
  /\ pc = "iteration_end"
  /\ iteration' = iteration + 1
  /\ process' = [process EXCEPT !.cycles = @ + 1]
  /\ pc' = "save_train"
  /\ UNCHANGED <<config, do_eval, time_step, game_over, env_t, replay_buffer,
                 train, env_steps, episode_steps, env_steps_metric, global_step,
                 global_step_val, last, train_phase_metrics, eval_metrics,
                 outputs, checkpoints, at_stop>>

(* a save of run leaves the program state alone *)
SaveStep(from, to) ==
  /\ UNCHANGED <<env_total, life_losses>>
  /\ pc = from
  /\ pc' = to
  /\ UNCHANGED <<config, do_eval, time_step, game_over, env_t, replay_buffer,
                 train, env_steps, episode_steps, env_steps_metric, global_step,
                 iteration, global_step_val, last, train_phase_metrics,
                 eval_metrics, outputs, process, at_stop>>

(* run, line 406 *)
SaveTrain ==
  /\ SaveStep("save_train", "save_policy")
  /\ checkpoints' =
       save(checkpoints, "train",
            train_checkpoint(global_step_val, global_step, env_steps_metric,
                             train_phase_metrics, iteration))

(* run, line 407 *)
SavePolicy ==
  /\ SaveStep("save_policy", "save_rb")
  /\ checkpoints' =
       save(checkpoints, "policy",
            policy_checkpoint(global_step_val, global_step))

(* variant: the replay buffer checkpoint is not written *)
SaveReplayBuffer_skipped ==
  /\ SaveStep("save_rb", "loop_head")
  /\ UNCHANGED checkpoints

(* run, line 408 *)
SaveReplayBuffer ==
  /\ SaveStep("save_rb", "loop_head")
  /\ checkpoints' =
       save(checkpoints, "rb", rb_checkpoint(global_step_val, replay_buffer))

(* the process stops after the three saves of a cycle and a new one is     *)
(* started on the same train_dir: __init__ runs again, the checkpoints     *)
(* stay                                                                    *)
Restart ==
  /\ UNCHANGED <<env_total, life_losses>>
  /\ pc = "loop_head"
  /\ process.cycles >= 1
  /\ process.restarts < MaxRestarts
  /\ at_stop' = [global_step |-> global_step, iteration |-> iteration,
                 env_steps_metric |-> env_steps_metric,
                 train_phase_metrics |-> train_phase_metrics,
                 eval_metrics |-> eval_metrics,
                 rb_size |-> rb_size(replay_buffer)]
  /\ process' = [restarts |-> process.restarts + 1, cycles |-> 0]
  /\ pc' = "start"
  /\ time_step' = ts_restart
  /\ game_over' = FALSE
  /\ env_t' = 0
  /\ replay_buffer' = <<>>
  /\ train' = FALSE
  /\ env_steps' = 0
  /\ episode_steps' = 0
  /\ env_steps_metric' = 0
  /\ global_step' = 0
  /\ iteration' = 0
  /\ global_step_val' = 0
  /\ last' = NoStep
  /\ train_phase_metrics' = 0
  /\ eval_metrics' = 0
  /\ logged' = 0
  /\ callback_step' = 0 - 1
  /\ UNCHANGED <<config, do_eval, checkpoints>>

(* variant: the count grows by the environment step calls made *)
env_steps_added_per_call(env_calls) == env_calls

(* line 468: env_steps += 1, whatever _collect_step did *)
env_steps_added(env_calls) == 1

(* _run_episode, lines 462-468: one _collect_step *)
CollectStep ==
  /\ pc = "collect"
  /\ \E o1 \in EnvStepAt(env_t, env_total) :
       \E o2 \in IF life_loss_splice(o1.ts, o1.game_over)
                 THEN EnvStepAt(env_t + 1, env_total + 1) ELSE {o1} :
         LET c == collect_step(time_step, episode_policy(train), train,
                               o1, o2)
         IN /\ time_step' = c.next_time_step
            /\ game_over' = c.game_over
            /\ env_t' = env_t + Len(c.env)
            /\ env_total' = Min(env_total + Len(c.env), MaxEnvSteps)
            /\ replay_buffer' = add_all(replay_buffer, c.written)
            /\ env_steps_metric' =
                 IF observes_env_steps(train)
                 THEN EnvironmentSteps(env_steps_metric, c.observed)
                 ELSE env_steps_metric
            /\ train_phase_metrics' =
                 IF "train_phase_metrics" \in metric_observers(train)
                 THEN train_phase_metrics + Len(c.observed)
                 ELSE train_phase_metrics
            /\ eval_metrics' =
                 IF "eval_metrics" \in metric_observers(train)
                 THEN eval_metrics + Len(c.observed)
                 ELSE eval_metrics
            /\ last' = StepLog(c)
            /\ episode_steps' = episode_steps + env_steps_added(Len(c.env))
            /\ life_losses' =
                 IF life_loss_splice(o1.ts, o1.game_over)
                 THEN life_losses + 1 ELSE life_losses
  /\ pc' = "after_collect"
  /\ UNCHANGED <<config, do_eval, train, env_steps, global_step, iteration,
                 global_step_val, outputs, durable>>

(* _run_episode, lines 470-471 and 479, and line 378 / 393 of run *)
EpisodeReturn ==
  /\ UNCHANGED env_total
  /\ pc = "after_collect"
  /\ episode_over(time_step, game_over)
  /\ env_steps' = env_steps + episode_steps
  /\ pc' = IF train THEN "train_loop" ELSE "eval_loop"
  /\ time_step' = ts_restart
  /\ episode_steps' = 0
  /\ life_losses' = 0
  /\ last' = NoStep
  /\ UNCHANGED <<config, do_eval, game_over, env_t, replay_buffer, train,
                 env_steps_metric, global_step, iteration, global_step_val,
                 train_phase_metrics, eval_metrics, outputs, durable>>

(* variant: the train argument is not tested *)
update_due_in_any_mode(train_flag, count) ==
  count % self_update_period = 0

(* line 472: train and self._env_steps_metric.result() % update_period == 0 *)
update_due(train_flag, count) ==
  train_flag /\ count % self_update_period = 0

(* _run_episode, lines 472-477: one train step *)
TrainStep ==
  /\ UNCHANGED <<env_total, life_losses>>
  /\ pc = "after_collect"
  /\ ~episode_over(time_step, game_over)
  /\ update_due(train, env_steps_metric)
  /\ global_step' = global_step + 1
  /\ last' = [NoStep EXCEPT !.events = last.events \o <<"update">>]
  /\ pc' = "collect"
  /\ UNCHANGED <<config, do_eval, time_step, game_over, env_t, replay_buffer,
                 train, env_steps, episode_steps, env_steps_metric, iteration,
                 global_step_val, train_phase_metrics, eval_metrics, 
                 outputs, durable>>

(* _run_episode, lines 470-472: neither branch taken *)
EpisodeContinue ==
  /\ UNCHANGED <<env_total, life_losses>>
  /\ pc = "after_collect"
  /\ ~episode_over(time_step, game_over)
  /\ ~update_due(train, env_steps_metric)
  /\ pc' = "collect"
  /\ last' = NoStep
  /\ UNCHANGED <<config, do_eval, time_step, game_over, env_t, replay_buffer,
                 train, env_steps, episode_steps, env_steps_metric, global_step,
                 iteration, global_step_val,
                 train_phase_metrics, eval_metrics, outputs, durable>>

Next ==
  \/ InitializeGraph
  \/ InitialCollectReset
  \/ InitialCollectStep
  \/ InitialCollectDone
  \/ TrainPhaseBegin
  \/ RunDone
  \/ TrainEpisodeBegin
  \/ TrainPhaseEnd
  \/ EvalEpisodeBegin
  \/ EvalPhaseEnd
  \/ IterationEnd
  \/ SaveTrain
  \/ SavePolicy
  \/ SaveReplayBuffer
  \/ Restart
  \/ CollectStep
  \/ EpisodeReturn
  \/ TrainStep
  \/ EpisodeContinue

Spec == Init /\ [][Next]_vars

(* the same program with an initial-collect threshold one agent step above *)
(* the default one: INITIAL_COLLECT takes more than one iteration          *)
LongCollectConfig ==
  [DefaultConfig EXCEPT !.initial_collect_steps =
                          (InitialCollectAgentSteps + 1) * ATARI_FRAME_SKIP]

InitLongCollect == config = LongCollectConfig /\ Constructed

SpecLongCollect == InitLongCollect /\ [][Next]_vars

(* a configuration whose threshold is above the capacity of the Store *)
OverCapacityConfig ==
  [DefaultConfig EXCEPT !.initial_collect_steps =
                          (Capacity + 1) * ATARI_FRAME_SKIP]

InitCollectConfigs ==
  config \in {LongCollectConfig, OverCapacityConfig} /\ Constructed

(* _initial_collect is a loop of blocking calls in the one thread of run:  *)
(* its next statement is executed whenever the environment step returns    *)
SpecCollectFair ==
  /\ InitCollectConfigs
  /\ [][Next]_vars
  /\ WF_vars(InitialCollectReset)
  /\ WF_vars(InitialCollectStep)
  /\ WF_vars(InitialCollectDone)

SpecConfigs == InitConfigs /\ [][Next]_vars

(* ======================================================================= *)
(* Properties                                                              *)
(* ======================================================================= *)
(* a collect step of _run_episode has just completed *)
AfterCollect == pc = "after_collect"

(* the environment outcome o is LAST while the game is not over *)
IsBoundary(o) == o.ts.step_type = "LAST" /\ ~o.game_over

(* the collect step just completed crossed a life-loss boundary *)
LifeLossStep == AfterCollect /\ IsBoundary(last.env[1])

Clipped(r) == IF r > 1 THEN 1 ELSE IF r < 0 - 1 THEN 0 - 1 ELSE r

(* the k most recent entries of the Store *)
Newest(k) ==
  SubSeq(replay_buffer, Len(replay_buffer) - k + 1, Len(replay_buffer))

(* ---- C1 ---------------------------------------------------------------- *)
(* C1 as stated: a TRAIN collect step that crosses a life-loss boundary     *)
(* writes exactly one transition to the Store, the synthetic restart.      *)
C1_OneWritePerBoundary ==
  (LifeLossStep /\ train) =>
     /\ Len(last.written) = 1
     /\ last.written[1].step_type = "FIRST"

(* C1 amended: a TRAIN collect step that crosses a life-loss boundary       *)
(* writes exactly two transitions to the Store, in this order: the raw     *)
(* boundary-crossing transition (next step LAST, discount overridden to    *)
(* 1.0, reward clipped) and the synthetic-restart transition (step FIRST,  *)
(* carrying the clipped reward and the step kind of the extra step); a     *)
(* TRAIN collect step without a boundary writes exactly one.               *)
C1_TwoWritesPerBoundary ==
  (AfterCollect /\ train) =>
     IF IsBoundary(last.env[1])
     THEN /\ Len(last.written) = 2
          /\ last.written[1].next_step_type = "LAST"
          /\ last.written[1].discount = 1
          /\ last.written[1].reward = Clipped(last.env[1].ts.reward)
          /\ last.written[2].step_type = "FIRST"
          /\ last.written[2].next_step_type = last.env[2].ts.step_type
          /\ last.written[2].reward = Clipped(last.env[2].ts.reward)
          /\ Newest(2) = last.written
     ELSE /\ Len(last.written) = 1
          /\ Newest(1) = last.written

(* a TRAIN collect step crossed a life-loss boundary and wrote twice *)
C1_Witness ==
  /\ LifeLossStep /\ train
  /\ Len(last.written) = 2
  /\ Newest(2) = last.written

(* ---- C2 ---------------------------------------------------------------- *)
(* C2 as stated: at a life-loss boundary the rewards of the two            *)
(* transitions delivered to the observers sum to the reward of the         *)
(* life-loss step alone.                                                   *)
C2_SumIsLifeLossReward ==
  LifeLossStep =>
     last.observed[1].reward + last.observed[2].reward
       = last.env[1].ts.reward

(* C2 amended: at a life-loss boundary the first transition delivered to   *)
(* the observers carries the reward of the life-loss step and the second   *)
(* carries the reward of the extra step taken after it, both unclipped, so *)
(* their sum is the sum of the two environment rewards.                    *)
C2_SumIsBothRewards ==
  LifeLossStep =>
     /\ Len(last.observed) = 2
     /\ last.observed[1].reward = last.env[1].ts.reward
     /\ last.observed[2].reward = last.env[2].ts.reward
     /\ last.observed[1].reward + last.observed[2].reward
          = last.env[1].ts.reward + last.env[2].ts.reward

(* a life-loss boundary whose two environment rewards differ *)
C2_Witness ==
  /\ LifeLossStep
  /\ last.env[2].ts.reward # 0
  /\ last.env[1].ts.reward # last.env[2].ts.reward
  /\ last.observed[2].reward = last.env[2].ts.reward

(* ---- C3 ---------------------------------------------------------------- *)
(* C3: every collect step, TRAIN or EVAL, calls the observers exactly      *)
(* twice when its first environment step is a life-loss boundary and       *)
(* exactly once otherwise.                                                 *)
ObserveCalls == Len(SelectSeq(last.events, LAMBDA e : e = "observe"))

C3_ObserverCalls ==
  AfterCollect =>
     /\ Len(last.observed) = IF IsBoundary(last.env[1]) THEN 2 ELSE 1
     /\ ObserveCalls = Len(last.observed)

(* an EVAL collect step crossed a life-loss boundary *)
C3_Witness ==
  /\ LifeLossStep /\ ~train
  /\ Len(last.observed) = 2

(* ---- C4 ---------------------------------------------------------------- *)
(* C4: _run_episode goes on after a collect step that leaves game_over     *)
(* False, also at a life-loss boundary, and returns right after a collect  *)
(* step that leaves game_over True: that return takes no environment step  *)
(* and no learning update, and nothing else returns from an episode.       *)
InPhaseLoop == pc \in {"train_loop", "eval_loop"}

C4_EpisodeEndsAtGameOver ==
  [][ /\ (AfterCollect /\ game_over) =>
            /\ InPhaseLoop'
            /\ global_step' = global_step
            /\ replay_buffer' = replay_buffer
            /\ game_over' = game_over
            /\ env_steps' = env_steps + episode_steps
      /\ (AfterCollect /\ ~game_over) => pc' = "collect"
      /\ (pc \in {"collect", "after_collect"} /\ InPhaseLoop') =>
            (AfterCollect /\ game_over)
      /\ (pc = "collect" /\ episode_steps > 0) => ~game_over
    ]_vars

(* the episode goes on although the latest time step is LAST *)
C4_Witness ==
  /\ pc = "collect"
  /\ episode_steps > 0
  /\ time_step.step_type = "LAST"
  /\ ~game_over

(* ---- C5 ---------------------------------------------------------------- *)
(* C5: no step of an EVAL episode or of the EVAL phase changes the Store.  *)
InEval ==
  \/ pc = "eval_loop"
  \/ (pc \in {"collect", "after_collect"} /\ ~train)

C5_EvalLeavesStore ==
  [][ InEval => replay_buffer' = replay_buffer ]_vars

(* an EVAL collect step crossed a life-loss boundary, Store not empty *)
C5_Witness ==
  /\ LifeLossStep /\ ~train
  /\ last.written = <<>>
  /\ Len(replay_buffer) > 0

(* ---- C6 ---------------------------------------------------------------- *)
(* C6: every transition in the Store has its reward within [-1, 1].        *)
C6_StoredRewardsClipped ==
  \A i \in 1..Len(replay_buffer) :
     replay_buffer[i].reward >= 0 - 1 /\ replay_buffer[i].reward <= 1

(* ---- C7 ---------------------------------------------------------------- *)
(* C7: in TRAIN mode every collect step that leaves the count of           *)
(* environment steps at a multiple of update_period is followed by one     *)
(* learning update.                                                        *)
C7_UpdateAtEveryMultiple ==
  [][ (AfterCollect /\ train
         /\ env_steps_metric % self_update_period = 0) =>
        global_step' = global_step + 1
    ]_vars

(* ---- C8 ---------------------------------------------------------------- *)
(* C8: each iteration of the INITIAL_COLLECT loop runs only while the      *)
(* Store size is below the threshold, takes one environment step, writes   *)
(* the one transition of that step to the Store (size + 1) and resets the  *)
(* environment exactly when the game was over; the loop is left with the   *)
(* Store unchanged and, when the run started with an empty Store (no       *)
(* checkpoint restored), its size equal to the threshold.                  *)
InInitialCollect == pc = "initial_collect_loop"

C9_EvalUsesEvalPolicy ==
  (AfterCollect /\ ~train) =>
     \A i \in 1..Len(last.policies) : last.policies[i] = "eval"

(* ---- C10 --------------------------------------------------------------- *)
(* C10: INITIAL_COLLECT is entered once, from the start of run only; the   *)
(* phases then follow LOOP -> TRAIN -> (EVAL when do_eval) -> CYCLE_END -> *)
(* LOOP; Iteration changes only at the end of a cycle, by exactly 1, and   *)
(* the run ends exactly when Iteration has reached num_iterations.  (A     *)
(* process started on the train_dir of a stopped one is a new run: it      *)
(* begins at NONE and restores Iteration before INITIAL_COLLECT.)          *)
Phase ==
  CASE pc = "start" -> "NONE"
    [] pc \in {"initial_collect", "initial_collect_loop"} -> "INITIAL_COLLECT"
    [] pc = "loop_head" -> "LOOP"
    [] pc = "train_loop" -> "TRAIN_PHASE"
    [] pc = "eval_loop" -> "EVAL_PHASE"
    [] pc \in {"collect", "after_collect"} ->
         IF train THEN "TRAIN_PHASE" ELSE "EVAL_PHASE"
    [] pc \in {"iteration_end", "save_train", "save_policy", "save_rb"} ->
         "CYCLE_END"
    [] pc = "done" -> "DONE"

C10_PhaseOrder ==
  [][ /\ (Phase' # Phase) =>
           CASE Phase = "NONE" -> Phase' = "INITIAL_COLLECT"
             [] Phase = "INITIAL_COLLECT" -> Phase' = "LOOP"
             [] Phase = "LOOP" ->
                  \/ Phase' = IF iteration < num_iterations
                              THEN "TRAIN_PHASE" ELSE "DONE"
                  \/ Phase' = "NONE" /\ process' # process
             [] Phase = "TRAIN_PHASE" ->
                  Phase' = IF do_eval THEN "EVAL_PHASE" ELSE "CYCLE_END"
             [] Phase = "EVAL_PHASE" -> Phase' = "CYCLE_END"
             [] Phase = "CYCLE_END" -> Phase' = "LOOP"
             [] Phase = "DONE" -> FALSE
      /\ (pc = "iteration_end") => iteration' = iteration + 1
      /\ (pc # "iteration_end" /\ Phase # "NONE" /\ Phase' # "NONE") =>
           iteration' = iteration
      /\ (Phase' = "DONE") => iteration = num_iterations
    ]_vars

(* the run has ended after a full train and eval cycle *)
C10_Witness ==
  /\ pc = "done"
  /\ do_eval
  /\ iteration = num_iterations
  /\ iteration > 0
  /\ global_step_val = global_step

(* ---- C11 --------------------------------------------------------------- *)
(* the latest checkpoint of every group holds the current values *)
AllSaved(ckpts) ==
  /\ ckpts.train # <<>> /\ ckpts.policy # <<>> /\ ckpts.rb # <<>>
  /\ ckpts.train[1].iteration = iteration
  /\ ckpts.train[1].global_step = global_step
  /\ ckpts.train[1].env_steps_metric = env_steps_metric
  /\ ckpts.policy[1].global_step = global_step
  /\ ckpts.rb[1].replay_buffer = replay_buffer

(* C11: at the end of every cycle Iteration is incremented first, then the *)
(* train, policy and replay buffer checkpoints are saved, in this order,   *)
(* and only then is the loop head reached; a TRAIN_PHASE that follows a    *)
(* completed cycle begins only with all three checkpoints holding the      *)
(* current values, and no checkpoint changes inside a TRAIN_PHASE or an    *)
(* EVAL_PHASE.                                                             *)
C11_SavesAfterEveryCycle ==
  [][ /\ (pc = "iteration_end") =>
           /\ iteration' = iteration + 1
           /\ checkpoints' = checkpoints
           /\ pc' = "save_train"
      /\ (pc = "save_train") =>
           /\ checkpoints'.train # <<>>
           /\ checkpoints'.train[1].iteration = iteration
           /\ pc' = "save_policy"
      /\ (pc = "save_policy") => pc' = "save_rb"
      /\ (pc = "save_rb") => (pc' = "loop_head" /\ AllSaved(checkpoints'))
      /\ (pc' = "loop_head") => pc \in {"save_rb", "initial_collect_loop"}
      /\ (Phase = "LOOP" /\ Phase' = "TRAIN_PHASE" /\ process.cycles >= 1) =>
           AllSaved(checkpoints)
      /\ (checkpoints' # checkpoints) => Phase \in {"NONE", "CYCLE_END"}
    ]_vars

(* a second TRAIN_PHASE has begun, after the saves of the first cycle *)
C11_Witness ==
  /\ pc = "train_loop"
  /\ env_steps = 0
  /\ process.cycles = 1
  /\ iteration = 1
  /\ AllSaved(checkpoints)
  /\ checkpoints.rb[1].replay_buffer # <<>>

(* ---- C12 --------------------------------------------------------------- *)
(* _initialize_graph has just run in a process started after a stop *)
JustRestored == pc = "initial_collect" /\ process.restarts >= 1

(* the values the train and replay buffer checkpointers hold are back *)
RestoredCheckpointed ==
  /\ global_step = at_stop.global_step
  /\ iteration = at_stop.iteration
  /\ env_steps_metric = at_stop.env_steps_metric
  /\ train_phase_metrics = at_stop.train_phase_metrics
  /\ rb_size(replay_buffer) = at_stop.rb_size

(* the resumed run has ended after the remaining cycles *)
ResumedCycles ==
  (pc = "done" /\ process.restarts >= 1) =>
     process.cycles = num_iterations - at_stop.iteration

(* C12 as stated: after a stop at a cycle boundary and a restart, the      *)
(* restored GlobalStep, Iteration, Store size and all metric results (the  *)
(* eval metrics among them) equal their values at the save, and the        *)
(* resumed run executes num_iterations minus the restored Iteration        *)
(* further cycles.                                                         *)
C12_AllMetricsRoundTrip ==
  /\ JustRestored =>
       (RestoredCheckpointed /\ eval_metrics = at_stop.eval_metrics)
  /\ ResumedCycles

(* C12 amended: after a stop at a cycle boundary and a restart, the        *)
(* restored GlobalStep, Iteration, Store size and the results of the       *)
(* metrics of the train checkpointer (train metrics, train phase metrics,  *)
(* Iteration) equal their values at the save; the eval metrics belong to   *)
(* no checkpointer and start empty; the resumed run executes               *)
(* num_iterations minus the restored Iteration further cycles.             *)
C12_CheckpointRoundTrip ==
  /\ JustRestored => (RestoredCheckpointed /\ eval_metrics = 0)
  /\ ResumedCycles

(* a run resumed after the first cycle has ended after one further cycle *)
C12_Witness ==
  /\ pc = "done"
  /\ process.restarts = 1
  /\ process.cycles = 1
  /\ at_stop.iteration = 1
  /\ at_stop.global_step >= 1
  /\ at_stop.rb_size = replay_buffer_capacity
  /\ global_step > at_stop.global_step

(* ---- C13 --------------------------------------------------------------- *)
(* the global step gs is at or beyond the decay period of                  *)
(* epsilon_decay_period / ATARI_FRAME_SKIP / update_period updates         *)
Decayed(gs) ==
  gs * self_update_period * ATARI_FRAME_SKIP >= epsilon_decay_period

EpsilonFloor == epsilon_greedy * (epsilon_decay_period \div ATARI_FRAME_SKIP)

(* C13: epsilon, scheduled against GlobalStep, is 1.0 at GlobalStep 0, is  *)
(* the floor epsilon_greedy at every GlobalStep at or beyond the decay     *)
(* period, and at every GlobalStep is no larger than it was at any         *)
(* earlier GlobalStep.                                                     *)
C13_EpsilonSchedule ==
  /\ (global_step = 0) => epsilon(global_step) = EpsilonOne
  /\ Decayed(global_step) => epsilon(global_step) = EpsilonFloor
  /\ \A g \in 0..global_step :
       /\ epsilon(g) >= epsilon(global_step)
       /\ (g = 0) => epsilon(g) = EpsilonOne
       /\ Decayed(g) => epsilon(g) = EpsilonFloor
  /\ epsilon(global_step) >= EpsilonFloor
  /\ epsilon(global_step) <= EpsilonOne

(* the run has passed a GlobalStep strictly inside the decay and reached   *)
(* one at the end of it                                                    *)
C13_Witness ==
  /\ global_step >= 2
  /\ Decayed(global_step)
  /\ ~Decayed(1)
  /\ epsilon(1) < EpsilonOne
  /\ epsilon(1) > EpsilonFloor
  /\ epsilon(global_step) = EpsilonFloor

(* ---- C14 --------------------------------------------------------------- *)
(* the transitions made from the i-th environment outcome of the collect   *)
(* step just completed: the one written to the Store (TRAIN only) and the  *)
(* one handed to the observers                                             *)
MadeFrom(i) ==
  (IF i <= Len(last.written) THEN {last.written[i]} ELSE {})
    \cup {last.observed[i]}

(* C14: every transition _run_episode writes to the Store or hands to the  *)
(* observers whose next time step is LAST while game_over is False carries *)
(* discount 1.0; a transition that ends in a true game over keeps the      *)
(* terminal discount 0.0 of the environment.                               *)
C14_LifeLossDiscount ==
  AfterCollect =>
    \A i \in 1..Len(last.env) :
      \A traj \in MadeFrom(i) :
        /\ (IsBoundary(last.env[i]) /\ traj.next_step_type = "LAST") =>
             traj.discount = 1
        /\ last.env[i].game_over =>
             traj.discount = last.env[i].ts.discount

(* ---- C15 --------------------------------------------------------------- *)
(* the number of positions of the event log that hold e *)
Count(e) == Cardinality({i \in 1..Len(last.events) : last.events[i] = e})

(* C15: within a collect step the calls come in the order action,          *)
(* environment step, Store write (TRAIN only), observer call, for each     *)
(* environment step taken, and a learning update comes only after the      *)
(* last observer call of the collect step: every Store write directly      *)
(* follows the environment step that produced its transition, every        *)
(* observer call follows the Store write of its transition (the            *)
(* environment step when nothing is written), and an update is the last    *)
(* event, after an observer call, in TRAIN mode.                           *)
C15_CallOrder ==
  /\ \A i \in 1..Len(last.events) :
       LET e == last.events[i]
           before == IF i = 1 THEN "none" ELSE last.events[i - 1]
       IN /\ (e = "step") => before = "action"
          /\ (e = "store") => before = "step"
          /\ (e = "observe") =>
               before = IF train /\ ~InInitialCollect THEN "store" ELSE "step"
          /\ (e = "update") =>
               (i = Len(last.events) /\ before = "observe" /\ train)
  /\ (AfterCollect \/ InInitialCollect) =>
       /\ Count("step") = Len(last.env)
       /\ Count("action") = Len(last.policies)
       /\ Count("store") = Len(last.written)
       /\ Count("observe") = Len(last.observed)
       /\ Count("update") = 0

(* a learning update has followed a TRAIN collect step that crossed a      *)
(* life-loss boundary                                                      *)
C15_Witness ==
  /\ pc = "collect"
  /\ train
  /\ last.events = <<"action", "step", "store", "observe",
                     "action", "step", "store", "observe", "update">>

(* ---- C16 --------------------------------------------------------------- *)
(* the latest checkpoint of every group carries the tag v *)
SavedUnder(v) ==
  /\ checkpoints.train # <<>> /\ checkpoints.train[1].tag = v
  /\ checkpoints.policy # <<>> /\ checkpoints.policy[1].tag = v
  /\ checkpoints.rb # <<>> /\ checkpoints.rb[1].tag = v

(* from the end of a TRAIN_PHASE to the end of its cycle the value read at *)
(* line 385 is the current GlobalStep; it is the value the eval callback   *)
(* receives and the tag of the three saves of the cycle                    *)
StepOfTheCycle ==
  /\ (Phase \in {"EVAL_PHASE", "CYCLE_END"}) => global_step_val = global_step
  /\ (Phase = "CYCLE_END" /\ do_eval) => callback_step = global_step
  /\ (pc = "loop_head" /\ process.cycles >= 1) =>
       /\ SavedUnder(global_step)
       /\ checkpoints.train[1].global_step = global_step
       /\ checkpoints.policy[1].global_step = global_step
       /\ do_eval => callback_step = global_step

(* C16: GlobalStep changes only by a learning update, by exactly 1, and a  *)
(* learning update happens only inside a TRAIN episode; INITIAL_COLLECT    *)
(* and every EVAL_PHASE leave GlobalStep unchanged, so the value read at   *)
(* the end of a TRAIN_PHASE is the GlobalStep passed to the eval callback  *)
(* and to the three saves of that cycle.  (Starting a process and          *)
(* restoring its checkpoint are outside every phase.)                      *)
C16_GlobalStepOfTheCycle ==
  [][ /\ (Phase # "NONE" /\ Phase' # "NONE") =>
           /\ global_step' \in {global_step, global_step + 1}
           /\ (global_step' = global_step + 1) =>
                /\ Phase = "TRAIN_PHASE"
                /\ pc = "after_collect"
                /\ train
                /\ Count("update")' = 1
           /\ (Count("update")' = 1 /\ Count("update") = 0) =>
                global_step' = global_step + 1
      /\ StepOfTheCycle'
    ]_vars

(* a cycle with learning updates and an eval phase has been saved *)
C16_Witness ==
  /\ pc = "loop_head"
  /\ process.cycles >= 1
  /\ do_eval
  /\ global_step >= 1
  /\ eval_metrics >= 1
  /\ callback_step = global_step
  /\ SavedUnder(global_step)

(* ---- C18 --------------------------------------------------------------- *)
InPhase == Phase \in {"TRAIN_PHASE", "EVAL_PHASE"}

(* the step budget and the metric of phase ph *)
Budget(ph) ==
  IF ph = "TRAIN_PHASE" THEN self_train_steps_per_iteration
  ELSE self_eval_steps_per_iteration

(* C18: a TRAIN_PHASE or EVAL_PHASE begins with its phase metrics reset    *)
(* and its step count at 0; it starts an episode, with an environment      *)
(* reset, exactly when the count is below the budget and ends, between     *)
(* episodes only, exactly when the count has reached it; the count grows   *)
(* by the steps_taken of each ended episode; and the phase metrics grow by *)
(* exactly the transitions handed to the observers by each collect step of *)
(* the phase, the metrics of the other phase staying as they are.          *)
C18_WholeEpisodesUpToBudget ==
  [][ /\ (InPhase' /\ Phase' # Phase) =>
           /\ env_steps' = 0
           /\ pc' \in {"train_loop", "eval_loop"}
           /\ IF Phase' = "TRAIN_PHASE"
              THEN train_phase_metrics' = 0 /\ eval_metrics' = eval_metrics
              ELSE eval_metrics' = 0
                   /\ train_phase_metrics' = train_phase_metrics
      /\ (InPhase /\ InPhaseLoop) =>
           IF env_steps < Budget(Phase)
           THEN /\ pc' = "collect"
                /\ last'.resets = 1
                /\ time_step' = ts_restart
                /\ episode_steps' = 0
                /\ env_steps' = env_steps
           ELSE Phase' # Phase
      /\ (InPhase /\ Phase' # Phase) =>
           (InPhaseLoop /\ env_steps >= Budget(Phase))
      /\ (InPhase /\ ~InPhaseLoop /\ InPhaseLoop') =>
           /\ game_over
           /\ env_steps' = env_steps + episode_steps
           /\ episode_steps >= 1
      /\ (InPhase /\ Phase' = Phase) =>
           LET seen == IF pc = "collect" THEN Len(last'.observed) ELSE 0
           IN IF Phase = "TRAIN_PHASE"
              THEN /\ train_phase_metrics' = train_phase_metrics + seen
                   /\ eval_metrics' = eval_metrics
              ELSE /\ eval_metrics' = eval_metrics + seen
                   /\ train_phase_metrics' = train_phase_metrics
    ]_vars

(* a train phase is about to end past its budget, with more transitions    *)
(* observed than collect steps taken                                       *)
C18_Witness ==
  /\ pc = "train_loop"
  /\ env_steps > self_train_steps_per_iteration
  /\ train_phase_metrics > env_steps
  /\ iteration = 1

(* ---- C19 --------------------------------------------------------------- *)
(* the train phase metrics of the train phase just ended are in the log /  *)
(* in the latest train checkpoint                                          *)
TrainPhaseLogged == logged = train_phase_metrics

TrainPhaseCheckpointed ==
  /\ checkpoints.train # <<>>
  /\ checkpoints.train[1].train_phase_metrics = train_phase_metrics
  /\ checkpoints.train[1].iteration = iteration

(* C19 as stated: when the EVAL_PHASE that follows a TRAIN_PHASE begins,   *)
(* the train phase metrics have been both logged and checkpointed.         *)
C19_LoggedAndSavedBeforeEval ==
  (Phase = "EVAL_PHASE") => (TrainPhaseLogged /\ TrainPhaseCheckpointed)

(* C19 amended: the train phase metrics are logged at the end of the       *)
(* TRAIN_PHASE, before the EVAL_PHASE begins; they are checkpointed at the *)
(* end of the cycle, after the EVAL_PHASE, with the values they had at the *)
(* end of the TRAIN_PHASE.                                                 *)
C19_LoggedThenSavedAtCycleEnd ==
  /\ (Phase \in {"EVAL_PHASE", "CYCLE_END"}) => TrainPhaseLogged
  /\ (Phase \in {"EVAL_PHASE", "CYCLE_END"}) =>
       train_phase_metrics >= self_train_steps_per_iteration
  /\ (pc = "loop_head" /\ process.cycles >= 1) =>
       (TrainPhaseLogged /\ TrainPhaseCheckpointed)

(* a cycle with an eval phase has ended: the metrics of its train phase    *)
(* are in the log and in the train checkpoint                              *)
C19_Witness ==
  /\ pc = "loop_head"
  /\ process.cycles >= 1
  /\ do_eval
  /\ eval_metrics >= 1
  /\ train_phase_metrics >= 1
  /\ TrainPhaseLogged
  /\ TrainPhaseCheckpointed

(* ---- C20 --------------------------------------------------------------- *)
(* C20: at a life-loss boundary the Store (TRAIN) sees a transition ending *)
(* in LAST followed by one starting at FIRST, while the observers see MID  *)
(* steps: no transition handed to the observers has next step LAST unless  *)
(* the game is over, and none has step FIRST except the first transition   *)
(* of an episode.                                                          *)
C20_ObserversSeeMidSteps ==
  AfterCollect =>
    /\ (IsBoundary(last.env[1]) /\ train) =>
         /\ Len(last.written) = 2
         /\ last.written[1].next_step_type = "LAST"
         /\ last.written[2].step_type = "FIRST"
    /\ \A i \in 1..Len(last.observed) :
         /\ (last.observed[i].next_step_type = "LAST") =>
              last.env[i].game_over
         /\ (last.observed[i].step_type = "FIRST") =>
              (i = 1 /\ episode_steps = 1)

(* ---- C17 --------------------------------------------------------------- *)
(* a learning update has just been made: the Store is as the update found  *)
(* it                                                                      *)
JustUpdated == Count("update") = 1

(* the update came after INITIAL_COLLECT, with enough in the Store for one *)
(* window of num_steps = 2 transitions                                     *)
UpdateHasData ==
  /\ Phase = "TRAIN_PHASE"
  /\ rb_size(replay_buffer) >= self_initial_collect_steps
  /\ rb_size(replay_buffer) >= 2

(* C17 as stated: under every configuration of threshold, capacity and     *)
(* update_period every learning update comes after INITIAL_COLLECT, with   *)
(* the Store size at least the threshold and at least 2.                   *)
C17_UpdateHasDataAlways == JustUpdated => UpdateHasData

(* C17 amended: under every configuration with a threshold of at least one *)
(* agent step and a capacity of at least 2 every learning update comes     *)
(* after INITIAL_COLLECT, with the Store size at least the threshold and   *)
(* at least 2.                                                             *)
C17_UpdateHasDataWhenGated ==
  (self_initial_collect_steps >= 1 /\ replay_buffer_capacity >= 2) =>
     (JustUpdated => UpdateHasData)

(* an update right after the first TRAIN collect step, under a             *)
(* configuration that updates at every agent step                          *)
C17_Witness ==
  /\ JustUpdated
  /\ self_update_period = 1
  /\ self_initial_collect_steps >= 1
  /\ replay_buffer_capacity >= 2
  /\ episode_steps = 1
  /\ env_steps = 0
  /\ iteration = 0
  /\ process.restarts = 0
  /\ rb_size(replay_buffer) = 2

(* ---- C21 --------------------------------------------------------------- *)
(* a _run_episode call is in progress *)
InEpisode == pc \in {"collect", "after_collect"}

(* the environment step calls made by the collect step just completed *)
CallsOfStep == Len(last.env)

(* C21: the steps_taken of an episode is the number of its collect steps   *)
(* and is at least 1 when the episode returns; a collect step that is a    *)
(* life-loss boundary (its first environment step returns LAST with        *)
(* game_over False) makes two environment step calls and every other one   *)
(* makes one, each adding 1 to steps_taken, so the environment step calls  *)
(* of an episode number steps_taken plus the life-loss boundaries crossed; *)
(* and the step count of a phase grows by the steps_taken of each episode, *)
(* not by its environment step calls.                                      *)
C21_StepsTakenCountsCollectSteps ==
  [][ /\ InEpisode' => env_t' = episode_steps' + life_losses'
      /\ (pc = "collect") =>
           /\ episode_steps' = episode_steps + 1
           /\ CallsOfStep' = IF IsBoundary(last'.env[1]) THEN 2 ELSE 1
           /\ env_t' = env_t + CallsOfStep'
           /\ life_losses' = life_losses + (CallsOfStep' - 1)
           /\ env_steps' = env_steps
      /\ (pc = "after_collect" /\ pc' = "collect") =>
           UNCHANGED <<episode_steps, env_t, life_losses, env_steps>>
      /\ (InEpisode /\ ~InEpisode') =>
           /\ episode_steps >= 1
           /\ env_steps' = env_steps + episode_steps
    ]_vars

(* an episode is about to return after two collect steps and three         *)
(* environment step calls, one collect step having crossed a life-loss     *)
(* boundary, in a phase that has completed an episode before               *)
C21_Witness ==
  /\ pc = "after_collect"
  /\ game_over
  /\ episode_steps = 2
  /\ life_losses = 1
  /\ env_t = 3
  /\ env_steps >= 1

(* ---- C22 --------------------------------------------------------------- *)
(* C22: an action is never requested from a LAST time step: every collect  *)
(* step of _run_episode, also the one right after a life-loss splice, and  *)
(* every iteration of INITIAL_COLLECT starts from a FIRST or MID time      *)
(* step.  The time step a collect step or an iteration started from is the *)
(* step kind of the first transition it made.                              *)
C22_NeverActsFromLast ==
  /\ (pc = "collect") => ~is_last(time_step)
  /\ AfterCollect => last.observed[1].step_type \in {"FIRST", "MID"}
  /\ (InInitialCollect /\ last.written # <<>>) =>
       last.written[1].step_type \in {"FIRST", "MID"}

(* ---- C23 --------------------------------------------------------------- *)
(* the threshold, in agent steps, does not exceed the capacity of the Store *)
ThresholdFits == self_initial_collect_steps <= replay_buffer_capacity

(* the Store holds at least the threshold *)
ThresholdMet == rb_size(replay_buffer) >= self_initial_collect_steps

(* C23: when the threshold does not exceed the capacity, INITIAL_COLLECT   *)
(* ends whenever it is entered: below the threshold every iteration takes  *)
(* one environment step and raises the Store size by exactly 1, and once   *)
(* the threshold is met, also when it is met from the start by the Store   *)
(* a checkpoint restored, INITIAL_COLLECT takes no environment step and    *)
(* writes nothing before it ends.                                          *)
C23_InitialCollectTerminates ==
  /\ [][ (ThresholdFits /\ Phase = "INITIAL_COLLECT") =>
           IF ThresholdMet
           THEN /\ replay_buffer' = replay_buffer
                /\ last'.env = <<>>
                /\ last'.written = <<>>
                /\ env_total' = env_total
                /\ InInitialCollect => pc' = "loop_head"
           ELSE InInitialCollect =>
                  /\ InInitialCollect'
                  /\ rb_size(replay_buffer') = rb_size(replay_buffer) + 1
                  /\ Len(last'.env) = 1
                  /\ Len(last'.written) = 1
       ]_vars
  /\ (ThresholdFits /\ pc = "initial_collect") ~> (pc = "loop_head")

(* INITIAL_COLLECT has ended in a process started on a checkpoint whose    *)
(* Store met the threshold: the Store is the restored one                  *)
C23_Witness ==
  /\ pc = "loop_head"
  /\ ThresholdFits
  /\ process.restarts = 1
  /\ process.cycles = 0
  /\ at_stop.rb_size >= self_initial_collect_steps
  /\ self_initial_collect_steps >= 2
  /\ checkpoints.rb # <<>>
  /\ replay_buffer = checkpoints.rb[1].replay_buffer
  /\ last = NoStep
====
